---- MODULE Spec2Model ----
(***************************************************************************)
(* A model of nltools.data.adjacency.Adjacency.                            *)
(*                                                                         *)
(* An array is a record: [nd |-> 1, v |-> <<x1, ..., xL>>] is a 1-D array  *)
(* of shape (L,), [nd |-> 2, v |-> <<row1, ..., rowk>>] a 2-D array of     *)
(* shape (k, L) with k >= 1.  Stored values are integers, so arithmetic is *)
(* exact.  Python's True, False, nan and None are the strings "True",      *)
(* "False", "nan" and "None"; nan is truthy, as it is in Python.           *)
(* The outcome of a call is a record [kind, err, val]: kind "error" with   *)
(* the exception's name in err, or the kind of the value returned.         *)
(*                                                                         *)
(* Five specifications share the variables: Spec (the constructor over     *)
(* every small input, and squareform), SpecOps (a client that builds an    *)
(* instance from a pool and calls the methods), SpecStack (instances with  *)
(* a Y table, indexing, iteration, append and regress), SpecFrame (the     *)
(* methods that return instances, and writes into what they returned) and  *)
(* SpecBootstrap (the tasks of bootstrap, interleaved).                    *)
(***************************************************************************)
EXTENDS Integers, Sequences, FiniteSets, TLC

VARIABLES src, adj, op, arg, ret, bs, frame

vars == <<src, adj, op, arg, ret, bs, frame>>

(***************************************************************************)
(* Bounds of the model.                                                    *)
(***************************************************************************)
MaxN == 2
MaxVecLen == 3
MaxK == 2
MaxSamples == 3
MaxSeed == 2

\* Entries of the raw inputs the client passes in.
Vals == {-1, 0, 1}

\* F applied to the value of e, which is computed once.
With(e, F(_)) == CHOOSE y \in {F(x) : x \in {e}} : TRUE

(***************************************************************************)
(* Arrays.                                                                 *)
(***************************************************************************)
Vec(v) == [nd |-> 1, v |-> v]

Mat(rows) == [nd |-> 2, v |-> rows]

NRows(a) == Len(a.v)

\* The columns; an array without rows, as reshape(0, 0) gives, has none.
NCols(a) == IF a.v = <<>> THEN 0 ELSE Len(a.v[1])

Shape(a) == IF a.nd = 1 THEN <<Len(a.v)>> ELSE <<NRows(a), NCols(a)>>

At(a, i, j) == a.v[i][j]

\* Whether the array holds objects (arrays of different lengths), not numbers.
IsObject(a) == "dtype" \in DOMAIN a

RECURSIVE SumSeq(_)
SumSeq(s) == IF s = <<>> THEN 0 ELSE s[1] + SumSeq(Tail(s))

\* Mutant of TriuIndices: np.triu_indices(n), which keeps the diagonal.
TriuIndicesWithDiagonal(n) ==
  LET all == [x \in 1..(n * n) |-> <<((x - 1) \div n) + 1, ((x - 1) % n) + 1>>]
  IN  SelectSeq(all, LAMBDA p: p[1] <= p[2])

\* np.triu_indices(n, k=1): the pairs (i, j), i < j, in row-major order.
TriuIndices(n) ==
  LET all == [x \in 1..(n * n) |-> <<((x - 1) \div n) + 1, ((x - 1) % n) + 1>>]
  IN  SelectSeq(all, LAMBDA p: p[1] < p[2])

\* data[np.triu_indices(n, k=1)] of a 2-D array.
Triu(a, n) ==
  With(TriuIndices(n), LAMBDA ix : [x \in 1..Len(ix) |-> At(a, ix[x][1], ix[x][2])])

\* data.T[np.triu_indices(n, k=1)] of a 2-D array.
TriuT(a, n) ==
  With(TriuIndices(n), LAMBDA ix : [x \in 1..Len(ix) |-> At(a, ix[x][2], ix[x][1])])

\* np.diag of a 2-D array: the main diagonal, of length min(rows, cols).
Diag(a) ==
  LET m == IF NRows(a) < NCols(a) THEN NRows(a) ELSE NCols(a)
  IN  [x \in 1..m |-> At(a, x, x)]

\* Mutant of Flatten: column-major order (flatten('F')).
FlattenColumnMajor(a) ==
  IF a.nd = 1 THEN a.v
  ELSE LET k == NRows(a)
       IN  [x \in 1..(k * NCols(a)) |-> At(a, ((x - 1) % k) + 1, ((x - 1) \div k) + 1)]

\* ndarray.flatten(): row-major.
Flatten(a) ==
  IF a.nd = 1 THEN a.v
  ELSE LET L == NCols(a)
       IN  [x \in 1..(NRows(a) * L) |-> At(a, ((x - 1) \div L) + 1, ((x - 1) % L) + 1)]

\* ndarray.reshape(n, n) of a 1-D array of length n * n.
Reshape(v, n) == [i \in 1..n |-> [j \in 1..n |-> v[(i - 1) * n + j]]]

\* int(np.sqrt(x)): the integer square root.
ISqrt(x) == CHOOSE r \in 0..x : r * r <= x /\ (r + 1) * (r + 1) > x

\* The side n >= 2 with n(n-1)/2 = L, or 0 when L is no such number.
TriSide(L) ==
  IF \E n \in 2..(L + 1) : n * (n - 1) = 2 * L
  THEN CHOOSE n \in 2..(L + 1) : n * (n - 1) = 2 * L
  ELSE 0

\* Position of entry (i, j), i < j, in the condensed vector of an n x n matrix.
CondensedIndex(n, i, j) == ((i - 1) * n) - (((i - 1) * i) \div 2) + (j - i)

(***************************************************************************)
(* Outcomes of a call.                                                     *)
(***************************************************************************)
Raise(e) == [kind |-> "error", err |-> e, val |-> 0]

Return(k, x) == [kind |-> k, err |-> "", val |-> x]

NoCall == [kind |-> "none", err |-> "", val |-> 0]

\* scipy.spatial.distance.squareform of a 1-D array: an empty vector gives the
\* 1 x 1 zero matrix, a vector whose length is no binomial coefficient raises.
ScipySquareform(v) ==
  With(TriSide(Len(v)), LAMBDA n :
    IF Len(v) = 0 THEN Return("matrix", Mat(<<<<0>>>>))
    ELSE IF n = 0 THEN Raise("ValueError")
    ELSE Return("matrix",
           Mat([i \in 1..n |-> [j \in 1..n |->
                  IF i = j THEN 0
                  ELSE IF i < j THEN v[CondensedIndex(n, i, j)]
                  ELSE v[CondensedIndex(n, j, i)]]])))

Truthy(x) == x # "False"

(***************************************************************************)
(* Adjacency._import_single_data                                           *)
(***************************************************************************)
Imported(d, sym, mt, single) ==
  [err |-> "", data |-> d, issymmetric |-> sym, matrix_type |-> mt,
   is_single_matrix |-> single]

ImportFailed(e) ==
  [err |-> e, data |-> Vec(<<>>), issymmetric |-> "nan", matrix_type |-> "None",
   is_single_matrix |-> "nan"]

test_is_single_matrix(d) == IF d.nd = 1 THEN "True" ELSE "False"

\* The branch taken when matrix_type is given.  data.shape[1] of a 1-D array
\* is an IndexError.
ImportTyped(d, mt) ==
  CASE mt = "distance_flat" ->
         Imported(d, "True", "distance", test_is_single_matrix(d))
    [] mt = "similarity_flat" ->
         Imported(d, "True", "similarity", test_is_single_matrix(d))
    [] mt = "directed_flat" ->
         Imported(Vec(Flatten(d)), "False", "directed", "True")
    [] OTHER ->
         IF d.nd = 1 THEN ImportFailed("IndexError")
         ELSE IF NRows(d) # NCols(d) THEN ImportFailed("ValueError")
         ELSE IF mt \in {"distance", "similarity"}
              THEN Imported(Vec(Triu(d, NRows(d))), "True", mt, "True")
              ELSE Imported(Vec(Flatten(d)), "False", mt, "True")

\* Mutant of IsSymmetricTest: the upper triangle compared with itself.
IsSymmetricTestSelf(data) == Triu(data, NRows(data)) = Triu(data, NRows(data))

\* The test for symmetry: the strict upper triangle against the transpose's.
IsSymmetricTest(data) == Triu(data, NRows(data)) = TriuT(data, NRows(data))

\* The matrix type of a symmetric matrix, from the sum of its diagonal; any
\* other sum leaves matrix_type the None it was passed as.
SymmetricType(data) ==
  IF SumSeq(Diag(data)) = 0 THEN "distance"
  ELSE IF SumSeq(Diag(data)) = NRows(data) THEN "similarity"
  ELSE "None"

\* The branch taken when matrix_type is None.  A failed squareform() is caught
\* and only printed, so data stays what it was; indexing a 1-D array, or a 2-D
\* array with fewer columns than rows, with triu_indices is an IndexError.
InferredSquare(d) ==
  IF d.nd = 1 THEN ScipySquareform(d.v)
  ELSE IF NRows(d) = NCols(d) THEN Return("matrix", d)
  ELSE ScipySquareform(d.v[1])

ImportInferred(d) ==
  With(InferredSquare(d), LAMBDA sq :
    LET single == IF d.nd = 1 \/ NRows(d) = NCols(d) THEN "True" ELSE "False"
        data == IF sq.kind = "error" THEN d ELSE sq.val
    IN  IF data.nd = 1 THEN ImportFailed("IndexError")
        ELSE IF NRows(data) >= 2 /\ NRows(data) > NCols(data)
             THEN ImportFailed("IndexError")
        ELSE With(IsSymmetricTest(data), LAMBDA sym :
               Imported(IF single = "False" THEN d
                        ELSE IF sym THEN Vec(Triu(data, NRows(data)))
                        ELSE Vec(Flatten(data)),
                        IF sym THEN "True" ELSE "False",
                        IF sym THEN SymmetricType(data) ELSE "directed",
                        single)))

ImportSingle(d, mt) == IF mt = "None" THEN ImportInferred(d) ELSE ImportTyped(d, mt)

(***************************************************************************)
(* Instances.  labels is [some, v]: v a sequence of labels, each label a   *)
(* record [len, id] (what len() gives for it, and which label it is; id 0  *)
(* is a list of len labels, the label set of one matrix).  Y               *)
(* is a table [nd |-> 2, v |-> rows] or, after iloc[i], a row [nd |-> 1].  *)
(***************************************************************************)
NoLabels == [some |-> FALSE, v |-> <<>>]

NoY == [some |-> FALSE, v |-> <<>>]

EmptyFrame == [nd |-> 2, v |-> <<>>]

\* len(Y): the rows of a table, the entries of a row taken out by iloc[i].
LenY(Y) == Len(Y.v)

\* Y.empty
YEmpty(Y) == Y.v = <<>> \/ (Y.nd = 2 /\ Y.v[1] = <<>>)

Instance(d, sym, mt, single, labels, Y) ==
  [data |-> d, issymmetric |-> sym, matrix_type |-> mt,
   is_single_matrix |-> single, labels |-> labels, Y |-> Y]

Empty == Instance(Vec(<<>>), "nan", "empty", "nan", NoLabels, EmptyFrame)

\* Mutant of LenAdj: the length of the last axis for a stack.
LenAdjLastAxis(a) ==
  IF Truthy(a.is_single_matrix) THEN 1 ELSE Shape(a.data)[Len(Shape(a.data))]

\* Adjacency.__len__
LenAdj(a) == IF Truthy(a.is_single_matrix) THEN 1 ELSE Shape(a.data)[1]

\* Adjacency.shape
ShapeAdj(a) == Shape(a.data)

\* Adjacency.isempty
isempty(a) == a.matrix_type = "empty"

\* Adjacency.__getitem__ with an integer index (1-based here): the row as a
\* single matrix; Y.iloc[index] when Y is not empty.  The labels are copied
\* as they are.
GetItem(a, i) ==
  IF a.data.nd = 1 THEN Raise("IndexError")
  ELSE IF i \notin 1..NRows(a.data) THEN Raise("IndexError")
  ELSE IF ~YEmpty(a.Y) /\ i \notin 1..Len(a.Y.v) THEN Raise("IndexError")
  ELSE Return("adj",
         [a EXCEPT !.data = Vec(a.data.v[i]),
                   !.is_single_matrix = "True",
                   !.Y = IF YEmpty(a.Y) THEN a.Y
                         ELSE [nd |-> 1, v |-> a.Y.v[i]]])

\* squareform of one stored vector: scipy's for a symmetric instance, a
\* reshape to (int(sqrt(L)), int(sqrt(L))) for a directed one.
SquareOne(v, sym) ==
  IF Truthy(sym) THEN ScipySquareform(v)
  ELSE LET r == ISqrt(Len(v))
       IN  IF r * r # Len(v) THEN Raise("ValueError")
           ELSE Return("matrix", Mat(Reshape(v, r)))

\* Adjacency.squareform
Squareform(a) ==
  IF Truthy(a.is_single_matrix)
  THEN SquareOne(Flatten(a.data), a.issymmetric)
  ELSE With([i \in 1..NRows(a.data) |-> SquareOne(a.data.v[i], a.issymmetric)],
         LAMBDA each :
           IF \E i \in 1..Len(each) : each[i].kind = "error"
           THEN Raise("ValueError")
           ELSE Return("matrices", [i \in 1..Len(each) |-> each[i].val]))

\* Adjacency.square_shape()[0].  np.array([])[0] of an empty instance is an
\* IndexError.
SquareSide(a) ==
  IF isempty(a) THEN Raise("IndexError")
  ELSE With(IF Truthy(a.is_single_matrix) THEN Squareform(a)
            ELSE IF a.data.nd = 1 THEN Raise("IndexError")
            ELSE SquareOne(a.data.v[1], a.issymmetric),
         LAMBDA sq :
           IF sq.kind = "error" THEN sq ELSE Return("scalar", Shape(sq.val)[1]))

(***************************************************************************)
(* Adjacency.__init__                                                      *)
(***************************************************************************)
ValidTypes ==
  {"distance", "similarity", "directed", "distance_flat", "similarity_flat",
   "directed_flat"}

\* What the caller passes as data: nothing, one array, or a list of arrays.
NoData == [kind |-> "none", a |-> Vec(<<>>), items |-> <<>>]

ArrayInput(a) == [kind |-> "array", a |-> a, items |-> <<>>]

ListInput(items) == [kind |-> "list", a |-> Vec(<<>>), items |-> items]

\* nltools.utils.all_same: whether every item equals the first.
all_same(items) == \A i \in 1..Len(items) : items[i] = items[1]

\* np.array(d_all) of the imported vectors: a 2-D array when they have one
\* length.  For vectors of different lengths the outcome depends on the numpy
\* the program runs with: a ValueError, or a 1-D array of objects.
StackImported(imps, ragged) ==
  IF \A i \in 1..Len(imps) : Len(imps[i].data.v) = Len(imps[1].data.v)
  THEN Return("array", Mat([i \in 1..Len(imps) |-> imps[i].data.v]))
  ELSE IF ragged = "ValueError" THEN Raise("ValueError")
  ELSE Return("array", [nd |-> 1, v |-> [i \in 1..Len(imps) |-> imps[i].data],
                        dtype |-> "object"])

\* The list branch: every element imported, the symmetry and the type
\* compared, the vectors stacked.
ImportList(items, mt, ragged) ==
  With([i \in 1..Len(items) |-> ImportSingle(items[i], mt)], LAMBDA imps :
    LET bad == {i \in 1..Len(items) : imps[i].err # ""}
    IN  IF bad # {}
        THEN ImportFailed(imps[CHOOSE i \in bad : \A j \in bad : i <= j].err)
        ELSE IF ~all_same([i \in 1..Len(items) |-> imps[i].issymmetric])
             THEN ImportFailed("ValueError")
        ELSE IF ~all_same([i \in 1..Len(items) |-> imps[i].matrix_type])
             THEN ImportFailed("ValueError")
        ELSE With(StackImported(imps, ragged), LAMBDA st :
               IF st.kind = "error" THEN ImportFailed(st.err)
               ELSE Imported(st.val, imps[1].issymmetric, imps[1].matrix_type,
                             "False")))

\* The data branch of __init__.
InitData(data, mt, ragged) ==
  CASE data.kind = "none" -> Imported(Vec(<<>>), "nan", "empty", "nan")
    [] data.kind = "list" -> ImportList(data.items, mt, ragged)
    [] OTHER -> ImportSingle(data.a, mt)

\* The Y branch: a table needs as many rows as data.shape[0].
InitY(a, Y) ==
  IF ~Y.some THEN Return("Y", EmptyFrame)
  ELSE IF Shape(a.data)[1] # Len(Y.v) THEN Raise("ValueError")
  ELSE Return("Y", [nd |-> 2, v |-> Y.v])

RECURSIVE Repeat(_, _)
Repeat(s, k) == IF k = 0 THEN <<>> ELSE s \o Repeat(s, k - 1)

\* The labels branch.
InitLabels(a, labels) ==
  IF ~labels.some THEN Return("labels", NoLabels)
  ELSE With(SquareSide(a), LAMBDA side :
       LET n == Len(labels.v)
       IN  IF Truthy(a.is_single_matrix)
           THEN IF side.kind = "error" THEN side
                ELSE IF n # side.val THEN Raise("ValueError")
                ELSE Return("labels", labels)
           ELSE IF n # LenAdj(a)
                THEN IF side.kind = "error" THEN side
                     ELSE IF n # side.val THEN Raise("ValueError")
                     ELSE Return("labels",
                            [some |-> TRUE, v |-> Repeat(labels.v, LenAdj(a))])
                ELSE IF side.kind = "error" THEN side
                     ELSE IF \A i \in 1..n : labels.v[i].len # side.val
                          THEN Raise("ValueError")
                     ELSE Return("labels", labels))

\* Adjacency(data, Y, matrix_type, labels)
Adjacency(data, Y, mt, labels, ragged) ==
  IF mt # "None" /\ mt \notin ValidTypes THEN Raise("ValueError")
  ELSE With(InitData(data, mt, ragged), LAMBDA imp :
         IF imp.err # "" THEN Raise(imp.err)
         ELSE With(Instance(imp.data, imp.issymmetric, imp.matrix_type,
                            imp.is_single_matrix, NoLabels, EmptyFrame),
                LAMBDA a0 :
                  With(InitY(a0, Y), LAMBDA y :
                    IF y.kind = "error" THEN y
                    ELSE With(InitLabels(a0, labels), LAMBDA l :
                           IF l.kind = "error" THEN l
                           ELSE Return("adj", [a0 EXCEPT !.Y = y.val,
                                                         !.labels = l.val])))))

(***************************************************************************)
(* Arithmetic: __add__, __sub__, __mul__.  The operand y is a record       *)
(* [kind, x, a]: a number x ("scalar"), an instance a ("adj"), or anything *)
(* else ("other").                                                         *)
(***************************************************************************)
\* The array of F applied to every entry of d.
MapData(d, F(_)) ==
  IF d.nd = 1 THEN Vec([i \in 1..Len(d.v) |-> F(d.v[i])])
  ELSE Mat([i \in 1..Len(d.v) |-> [j \in 1..Len(d.v[i]) |-> F(d.v[i][j])]])

\* The array of F applied to the entries of d and e at each position; d and e
\* have one shape.
ZipData(d, e, F(_, _)) ==
  IF d.nd = 1 THEN Vec([i \in 1..Len(d.v) |-> F(d.v[i], e.v[i])])
  ELSE Mat([i \in 1..Len(d.v) |->
              [j \in 1..Len(d.v[i]) |-> F(d.v[i][j], e.v[i][j])]])

\* Mutant of BinaryOp: the subtraction with its operands exchanged.
BinaryOpSwapped(f, x, y) ==
  CASE f = "add" -> x + y
    [] f = "sub" -> y - x
    [] OTHER -> x * y

\* new.data + y, new.data - y, new.data * y on one entry.
BinaryOp(f, x, y) ==
  CASE f = "add" -> x + y
    [] f = "sub" -> x - y
    [] OTHER -> x * y

\* The body the three operators share: a deep copy of self whose data is
\* combined with a number, or with an instance of the same shape(); any other
\* operand leaves the copy as it is.
Arith(f, a, y) ==
  CASE y.kind = "scalar" ->
         Return("adj", [a EXCEPT !.data = MapData(a.data, LAMBDA v : BinaryOp(f, v, y.x))])
    [] y.kind = "adj" ->
         IF ShapeAdj(a) # ShapeAdj(y.a) THEN Raise("ValueError")
         ELSE Return("adj", [a EXCEPT !.data =
                ZipData(a.data, y.a.data, LAMBDA v, w : BinaryOp(f, v, w))])
    [] OTHER -> Return("adj", a)

\* Adjacency.__add__
Add(a, y) == Arith("add", a, y)

\* Adjacency.__sub__
Sub(a, y) == Arith("sub", a, y)

\* Adjacency.__mul__
Mul(a, y) == Arith("mul", a, y)

Scalar(x) == [kind |-> "scalar", x |-> x, a |-> Empty]

Operand(a) == [kind |-> "adj", x |-> 0, a |-> a]

Other == [kind |-> "other", x |-> 0, a |-> Empty]

(***************************************************************************)
(* Adjacency.threshold.  A cutoff is [some, x]: None, or the number x.     *)
(***************************************************************************)
NoCutoff == [some |-> FALSE, x |-> 0]

Cutoff(x) == [some |-> TRUE, x |-> x]

\* The truth value of a cutoff in "if upper and lower": None and 0 are false.
CutoffTruthy(c) == c.some /\ c.x # 0

\* One entry after the cutoffs, before binarize.
Thresholded(v, upper, lower) ==
  IF CutoffTruthy(upper) /\ CutoffTruthy(lower)
  THEN (IF v < upper.x /\ v > lower.x THEN 0 ELSE v)
  ELSE IF CutoffTruthy(upper) /\ ~CutoffTruthy(lower)
       THEN (IF v < upper.x THEN 0 ELSE v)
  ELSE IF CutoffTruthy(lower) /\ ~CutoffTruthy(upper)
       THEN (IF v > lower.x THEN 0 ELSE v)
  ELSE v

Threshold(a, upper, lower, binarize) ==
  Return("adj",
    [a EXCEPT !.data = MapData(a.data, LAMBDA v :
       With(Thresholded(v, upper, lower), LAMBDA w :
         IF binarize /\ w # 0 THEN 1 ELSE w))])

(***************************************************************************)
(* Adjacency.mean and Adjacency.std.  A statistic of the integers s is     *)
(* kept exactly, as [stat, num, den]: the mean is num / den with num the   *)
(* sum and den the count; the standard deviation is sqrt(num) / den with   *)
(* num = count * (sum of squares) - (sum)^2.  den = 0 is numpy's nan.      *)
(***************************************************************************)
Statistic(f, s) ==
  IF f = "mean" THEN [stat |-> f, num |-> SumSeq(s), den |-> Len(s)]
  ELSE [stat |-> f,
        num |-> Len(s) * SumSeq([i \in 1..Len(s) |-> s[i] * s[i]])
                  - SumSeq(s) * SumSeq(s),
        den |-> Len(s)]

\* Column j of a 2-D array.
Column(d, j) == [i \in 1..NRows(d) |-> At(d, i, j)]

\* self.matrix_type + '_flat'; None + '_flat' is a TypeError.
FlatType(mt) ==
  CASE mt = "distance" -> "distance_flat"
    [] mt = "similarity" -> "similarity_flat"
    [] mt = "directed" -> "directed_flat"
    [] OTHER -> "empty_flat"

\* np.mean / np.std of the data, by axis; the body mean and std share.
Stat(f, a, axis) ==
  IF Truthy(a.is_single_matrix) THEN Return("scalar", Statistic(f, a.data.v))
  ELSE IF axis = 0
       THEN IF a.matrix_type = "None" THEN Raise("TypeError")
            ELSE Adjacency(
                   ArrayInput(Vec([j \in 1..NCols(a.data) |->
                                     Statistic(f, Column(a.data, j))])),
                   NoY, FlatType(a.matrix_type), NoLabels, "ValueError")
  ELSE IF axis = 1
       THEN Return("array",
              Vec([i \in 1..NRows(a.data) |-> Statistic(f, a.data.v[i])]))
  ELSE Return("None", 0)

\* Adjacency.mean
Mean(a, axis) == Stat("mean", a, axis)

\* Adjacency.std
Std(a, axis) == Stat("std", a, axis)

(***************************************************************************)
(* distance_to_similarity and similarity_to_distance.                      *)
(***************************************************************************)
\* exp(-beta * d / std) is not an integer: the entry is kept as the d it is
\* computed from.
DistanceToSimilarity(a) ==
  IF a.matrix_type # "distance" THEN Raise("ValueError")
  ELSE With(Squareform(a), LAMBDA sq :
         IF sq.kind = "error" THEN sq
         ELSE IF sq.kind = "matrices" THEN Raise("AttributeError")
         ELSE Adjacency(ArrayInput(MapData(sq.val, LAMBDA d : [exp_minus |-> d])),
                        NoY, "similarity", a.labels, "ValueError"))

\* 1 - self.squareform(); the squareform() of a stack is a list, and 1 - list
\* is a TypeError.
SimilarityToDistance(a) ==
  IF a.matrix_type # "similarity" THEN Raise("ValueError")
  ELSE With(Squareform(a), LAMBDA sq :
         IF sq.kind = "error" THEN sq
         ELSE IF sq.kind = "matrices" THEN Raise("TypeError")
         ELSE Adjacency(ArrayInput(MapData(sq.val, LAMBDA v : 1 - v)),
                        NoY, "distance", a.labels, "ValueError"))

(***************************************************************************)
(* ttest, to_graph, plot_mds, write.                                       *)
(***************************************************************************)
\* The t and p instances: the values of the external tests are kept as the
\* column they are computed from.
TestColumns(a, name) ==
  Vec([j \in 1..NCols(a.data) |-> [stat |-> name, column |-> j]])

\* Mutant of Ttest: the test for a single matrix inverted.
TtestInverted(a, permutation) ==
  IF Truthy(a.is_single_matrix)
  THEN Return("dict", [t |-> [a EXCEPT !.data = Vec(<<>>)],
                       p |-> [a EXCEPT !.data = Vec(<<>>)]])
  ELSE Raise("ValueError")

\* Adjacency.ttest
Ttest(a, permutation) ==
  IF Truthy(a.is_single_matrix) THEN Raise("ValueError")
  ELSE IF permutation
       THEN With(Adjacency(ArrayInput(TestColumns(a, "mean")), NoY, "None",
                           NoLabels, "ValueError"), LAMBDA t :
            With(Adjacency(ArrayInput(TestColumns(a, "p")), NoY, "None",
                           NoLabels, "ValueError"), LAMBDA p :
              IF t.kind = "error" THEN t
              ELSE Return("dict", [t |-> t.val, p |-> p.val])))
  ELSE With(Mean(a, 0), LAMBDA t :
         IF t.kind = "error" THEN t
         ELSE Return("dict", [t |-> [t.val EXCEPT !.data = TestColumns(a, "t")],
                              p |-> [t.val EXCEPT !.data = TestColumns(a, "p")]]))

\* Adjacency.to_graph: the graph of the square form, its nodes renamed by the
\* labels zip() pairs them with.
ToGraph(a) ==
  IF Truthy(a.is_single_matrix)
  THEN With(Squareform(a), LAMBDA sq :
         IF sq.kind = "error" THEN sq
         ELSE Return("graph",
                [directed |-> a.matrix_type = "directed",
                 edges |-> sq.val,
                 nodes |-> [i \in 1..NRows(sq.val) |->
                              IF a.labels.some /\ i <= Len(a.labels.v)
                              THEN a.labels.v[i] ELSE [len |-> 0, id |-> i]]]))
  ELSE Raise("NotImplementedError")

\* Adjacency.plot_mds with ax=None.  labels_color is [some, n]: None or a list
\* of n colours.  Without labels_color, len(self.labels) of labels None is a
\* TypeError.
PlotMds(a, n_components, labels_color) ==
  IF a.matrix_type # "distance" THEN Raise("ValueError")
  ELSE IF ~Truthy(a.is_single_matrix) THEN Raise("ValueError")
  ELSE IF n_components \notin {2, 3} THEN Raise("ValueError")
  ELSE IF labels_color.some /\ ~a.labels.some THEN Raise("ValueError")
  ELSE IF labels_color.some /\ Len(a.labels.v) # labels_color.n
       THEN Raise("ValueError")
  ELSE With(Squareform(a), LAMBDA sq :
         IF sq.kind = "error" THEN sq
         ELSE IF ~a.labels.some THEN Raise("TypeError")
         ELSE Return("figure", [n_components |-> n_components,
                                points |-> NRows(sq.val)]))

\* Adjacency.write: the table written to the file.
Write(a, method) ==
  IF method \notin {"long", "square"} THEN Raise("ValueError")
  ELSE IF Truthy(a.is_single_matrix)
       THEN IF method = "long" THEN Return("file", a.data)
            ELSE With(Squareform(a), LAMBDA sq :
                   IF sq.kind = "error" THEN sq ELSE Return("file", sq.val))
  ELSE IF method = "long" THEN Return("file", a.data)
  ELSE Raise("NotImplementedError")

(***************************************************************************)
(* Y tables, indexing by a slice, and append.                              *)
(***************************************************************************)
\* The rows lo + 1 .. min(hi, n) of a sequence of n: what [lo:hi] selects.
Sliced(rows, lo, hi) ==
  IF lo >= Len(rows) THEN <<>>
  ELSE SubSeq(rows, lo + 1, IF hi < Len(rows) THEN hi ELSE Len(rows))

\* Adjacency.__getitem__ with the slice lo:hi that selects at least one row:
\* the rows stay stacked, Y.iloc[lo:hi] when Y is not empty.  The labels are
\* copied as they are.
GetSlice(a, lo, hi) ==
  IF a.data.nd = 1 THEN Raise("IndexError")
  ELSE Return("adj",
         [a EXCEPT !.data = Mat(Sliced(a.data.v, lo, hi)),
                   !.Y = IF YEmpty(a.Y) THEN a.Y
                         ELSE [nd |-> a.Y.nd, v |-> Sliced(a.Y.v, lo, hi)]])

\* The rows np.vstack stacks for an array.
RowsOf(d) == IF d.nd = 1 THEN <<d.v>> ELSE d.v

\* DataFrame.append of a table to a table: the rows of both, in order.
YAppend(Y1, Y2) == [nd |-> 2, v |-> Y1.v \o Y2.v]

\* Adjacency.append
append(a, y) ==
  IF y.kind # "adj" THEN Raise("ValueError")
  ELSE IF isempty(a) THEN Return("adj", y.a)
  ELSE With(SquareSide(a), LAMBDA mine :
       With(SquareSide(y.a), LAMBDA theirs :
         IF mine.kind = "error" THEN mine
         ELSE IF isempty(y.a) THEN Raise("ValueError")
         ELSE IF theirs.kind = "error" THEN theirs
         ELSE IF mine.val # theirs.val THEN Raise("ValueError")
         ELSE IF Len(RowsOf(a.data)[1]) # Len(RowsOf(y.a.data)[1])
              THEN Raise("ValueError")
         ELSE Return("adj",
                [a EXCEPT !.data = Mat(RowsOf(a.data) \o RowsOf(y.a.data)),
                          !.is_single_matrix = "False",
                          !.Y = IF YEmpty(a.Y) THEN a.Y
                                ELSE YAppend(a.Y, y.a.Y)])))

(***************************************************************************)
(* Adjacency.regress.  A design X is a record [kind, rows, cols, a]: a     *)
(* Design_Matrix of rows x cols ("design"), an instance a ("adj"), or      *)
(* anything else ("other").                                                *)
(***************************************************************************)
Design(rows, cols) == [kind |-> "design", rows |-> rows, cols |-> cols, a |-> Empty]

DesignInstance(a) == [kind |-> "adj", rows |-> 0, cols |-> 0, a |-> a]

NoDesign == [kind |-> "other", rows |-> 0, cols |-> 0, a |-> Empty]

\* An array of the given shape whose entries are all the quantity named.
Filled(name, rows, cols) == Mat([i \in 1..rows |-> [j \in 1..cols |-> name]])

\* nltools.stats.regress for a design of rows x cols and the array Y: one
\* coefficient, t and p for each column of the design and each column of Y,
\* residuals of the shape of Y; the design needs one row for each row of Y.
regression(rows, cols, Y) ==
  IF rows # Shape(Y)[1] THEN Raise("ValueError")
  ELSE With(IF Y.nd = 1 THEN 1 ELSE NCols(Y), LAMBDA width :
         Return("regression",
                [b |-> Filled("b", cols, width), t |-> Filled("t", cols, width),
                 p |-> Filled("p", cols, width),
                 res |-> MapData(Y, LAMBDA v : "res")]))

\* ndarray.squeeze of a 2-D array: the axes of length 1 are dropped.
Squeeze(d) ==
  IF NRows(d) = 1 /\ NCols(d) = 1 THEN [nd |-> 0, v |-> d.v[1][1]]
  ELSE IF NRows(d) = 1 THEN Vec(d.v[1])
  ELSE IF NCols(d) = 1 THEN Vec([i \in 1..NRows(d) |-> d.v[i][1]])
  ELSE d

\* [x for x in a]: the instances an iteration of a yields, or its error.
Yielded(a) ==
  With([x \in 1..LenAdj(a) |-> GetItem(a, x)], LAMBDA each :
    IF \E x \in 1..Len(each) : each[x].kind = "error"
    THEN each[CHOOSE x \in 1..Len(each) :
                /\ each[x].kind = "error"
                /\ \A w \in 1..(x - 1) : each[w].kind # "error"]
    ELSE Return("list", [x \in 1..Len(each) |-> each[x].val]))

\* The dictionary stats that regress fills in, or the error it raises.
RegressStats(a, X) ==
  CASE X.kind = "adj" ->
         With(SquareSide(X.a), LAMBDA theirs :
         With(SquareSide(a), LAMBDA mine :
           IF theirs.kind = "error" THEN theirs
           ELSE IF mine.kind = "error" THEN mine
           ELSE IF theirs.val # mine.val THEN Raise("ValueError")
           ELSE With(regression(Shape(X.a.data)[Len(Shape(X.a.data))],
                                IF X.a.data.nd = 1 THEN 1 ELSE NRows(X.a.data),
                                a.data),
                  LAMBDA r :
                    IF r.kind = "error" THEN r
                    ELSE Return("stats",
                           [beta |-> r.val.b, t |-> r.val.t, p |-> r.val.p,
                            residual |-> r.val.res]))))
    [] X.kind = "design" ->
         IF X.rows # LenAdj(a) THEN Raise("ValueError")
         ELSE With(regression(X.rows, X.cols, a.data), LAMBDA r :
              IF r.kind = "error" THEN r
              ELSE With(GetSlice(a, 0, 3), LAMBDA first :
                   IF first.kind = "error" THEN first
                   ELSE With(Yielded(first.val), LAMBDA three :
                        IF three.kind = "error" THEN three
                        ELSE IF Len(three.val) # 3 THEN Raise("ValueError")
                        ELSE Return("stats",
                               [beta |-> [three.val[1] EXCEPT !.data = Squeeze(r.val.b)],
                                t |-> [three.val[2] EXCEPT !.data = Squeeze(r.val.t)],
                                p |-> [three.val[3] EXCEPT !.data = Squeeze(r.val.p)],
                                residual |-> [a EXCEPT !.data = r.val.res]]))))
    [] OTHER -> Raise("ValueError")

\* Adjacency.regress: the function ends without a return statement, so a
\* call that raises nothing returns None.
Regress(a, X) ==
  With(RegressStats(a, X), LAMBDA stats :
    IF stats.kind = "error" THEN stats ELSE Return("None", stats.val))

(***************************************************************************)
(* Adjacency.distance                                                      *)
(***************************************************************************)
\* sklearn's pairwise_distances of the rows of a 2-D array with at least one
\* column: entry (i, j) is the distance of rows i and j, kept as the pair of
\* the rows it is the distance of.
pairwise_distances(d) ==
  IF d.nd = 1 THEN Raise("ValueError")
  ELSE IF NCols(d) = 0 THEN Raise("ValueError")
  ELSE Return("matrix",
         Mat([i \in 1..NRows(d) |-> [j \in 1..NRows(d) |->
                [stat |-> "distance", num |-> IF i < j THEN i ELSE j,
                 den |-> IF i < j THEN j ELSE i]]]))

\* Adjacency.distance
Distance(a) ==
  With(pairwise_distances(a.data), LAMBDA d :
    IF d.kind = "error" THEN d
    ELSE Adjacency(ArrayInput(d.val), NoY, "distance", NoLabels, "ValueError"))

(***************************************************************************)
(* Where the arrays of a returned instance are stored.  frame holds, for   *)
(* the last call: storage, the array the returned instance's data is       *)
(* ("new": one of its own, "self": the receiver's, "operand": the          *)
(* operand's); before, the receiver as it was when the call was made;      *)
(* operand, the operand instance as it is now; written, whether the client *)
(* has since written into the returned instance's data.                    *)
(***************************************************************************)
NoFrame == [storage |-> "none", before |-> Empty, operand |-> Empty, written |-> FALSE]

\* Mutant of copy: a copy whose arrays are those of the instance copied.
copyShared(a) == [val |-> a, shares |-> TRUE]

\* Adjacency.copy: deepcopy(self), which shares no array with self.
copy(a) == [val |-> a, shares |-> FALSE]

\* The array the instance returned by the method holds as data: threshold
\* writes into the data of self.copy() and returns it, append to an empty
\* instance returns data.copy(); every other method binds data to an array
\* it has computed.
Storage(name, a, args) ==
  CASE name = "threshold" -> IF copy(a).shares THEN "self" ELSE "new"
    [] name = "append" /\ args.y.kind = "adj" /\ isempty(a) ->
         IF copy(args.y.a).shares THEN "operand" ELSE "new"
    [] OTHER -> "new"

\* The methods that assign into the entries of the returned instance's data:
\* b.data[...] = 0 and b.data[...] = 1 of threshold.
WritesInPlace(name) == name = "threshold"

\* The instance passed as the operand of a call, if one was.
OperandGiven(args) ==
  IF "y" \in DOMAIN args /\ args.y.kind = "adj" THEN args.y.a ELSE Empty

(***************************************************************************)
(* The inputs the client draws from.                                       *)
(***************************************************************************)
\* The square matrices of side n: with entries in Vals up to side 2, with
\* entries 0 and 1 above it.
Square(n) == {Mat(m) : m \in [1..n -> [1..n -> IF n <= 2 THEN Vals ELSE {0, 1}]]}

\* The matrix of the specification's second example scenario.
Example2 == Mat(<<<<0, 3, 4>>, <<3, 0, 5>>, <<4, 5, 0>>>>)

SquareInputs == UNION {Square(n) : n \in 1..MaxN} \cup {Example2}

VecInputs == UNION {{Vec(v) : v \in [1..L -> Vals]} : L \in 0..MaxVecLen}

\* Matrices for the elements of a list: the diagonal all 0 ("zero"), all 1
\* ("one") or 1 then 0s ("mixed"); above it (j - i) times 1, -1 or 2; below it
\* the mirror image when s, and 0 otherwise.
PoolMatrix(n, c, s) ==
  Mat([i \in 1..n |-> [j \in 1..n |->
         IF i = j THEN (IF c = "one" \/ (c = "mixed" /\ i = 1) THEN 1 ELSE 0)
         ELSE IF i < j \/ s
              THEN (IF i < j THEN j - i ELSE i - j)
                   * (IF c = "zero" THEN 1 ELSE IF c = "one" THEN -1 ELSE 2)
         ELSE 0]])

ListPool ==
  {PoolMatrix(n, c, s) :
     n \in 1..MaxN, c \in {"zero", "one", "mixed"}, s \in BOOLEAN}

ListInputs == UNION {[1..k -> ListPool] : k \in 1..MaxK}

\* The lists of matrices of one side.
StackInputs ==
  {ms \in ListInputs : \A i \in 1..Len(ms) : NRows(ms[i]) = NRows(ms[1])}

InferredOrSquareTypes == {"None", "distance", "similarity", "directed"}

Label(i) == [len |-> 1, id |-> i]

\* n one-character labels.
SharedLabels(n) == [some |-> TRUE, v |-> [i \in 1..n |-> Label(i)]]

LabelInputs == {NoLabels} \cup {SharedLabels(n) : n \in 1..(MaxN + 1)}

\* A list of m labels, given as the label set of one matrix.
LabelSet(m) == [len |-> m, id |-> 0]

\* One label set for each of k matrices, of 1 to MaxN + 1 labels each.
LabelSetInputs(k) ==
  {[some |-> TRUE, v |-> [i \in 1..k |-> LabelSet(lens[i])]] :
     lens \in [1..k -> 1..(MaxN + 1)]}

(***************************************************************************)
(* The client: it constructs an instance, holds it in adj and calls its    *)
(* methods.  src is the constructor call that made adj (kind "none"       *)
(* before it), op, arg and ret the last call, its arguments and its        *)
(* outcome.                                                                *)
(***************************************************************************)
New(data, mt, labels, Y, r) ==
  [kind |-> "new", data |-> data, matrix_type |-> mt, labels |-> labels,
   Y |-> Y, made |-> r.kind = "adj"]

Constructed(data, mt, labels, Y, ragged) ==
  /\ \E r \in {Adjacency(data, Y, mt, labels, ragged)} :
       /\ src' = New(data, mt, labels, Y, r)
       /\ adj' = IF r.kind = "adj" /\ ~IsObject(r.val.data) THEN r.val ELSE Empty
       /\ op' = "init"
       /\ arg' = [none |-> TRUE]
       /\ ret' = r
  /\ frame' = NoFrame
  /\ UNCHANGED bs

\* Adjacency(M) or Adjacency(M, matrix_type=...) of a square matrix.
ConstructSquare ==
  /\ src.kind = "none"
  /\ \E m \in SquareInputs, mt \in InferredOrSquareTypes :
       Constructed(ArrayInput(m), mt, NoLabels, NoY, "ValueError")

\* Adjacency(v) or Adjacency(v, matrix_type=...) of a 1-D array.
ConstructVector ==
  /\ src.kind = "none"
  /\ \E v \in VecInputs, mt \in {"None"} \cup ValidTypes \cup {"bogus"} :
       Constructed(ArrayInput(v), mt, NoLabels, NoY, "ValueError")

\* Adjacency([M1, ..., Mk], ...) of a list of square matrices.
ConstructList ==
  /\ src.kind = "none"
  /\ \E ms \in ListInputs, mt \in InferredOrSquareTypes,
        ragged \in {"ValueError", "object"} :
       Constructed(ListInput(ms), mt, NoLabels, NoY, ragged)

\* Adjacency([M1, ..., Mk], labels=[...]) of a list of square matrices.
ConstructListLabelled ==
  /\ src.kind = "none"
  /\ \E ms \in ListInputs, l \in LabelInputs \ {NoLabels},
        ragged \in {"ValueError", "object"} :
       Constructed(ListInput(ms), "None", l, NoY, ragged)

\* Adjacency(M, labels=[...]) of a square matrix of the pool.
ConstructSquareLabelled ==
  /\ src.kind = "none"
  /\ \E m \in ListPool, l \in LabelInputs \ {NoLabels} :
       Constructed(ArrayInput(m), "None", l, NoY, "ValueError")

\* Adjacency([M1, ..., Mk], labels=[[...], ..., [...]]) of matrices of one
\* side, with one label set for each.
ConstructListLabelSets ==
  /\ src.kind = "none"
  /\ \E ms \in StackInputs :
       \E l \in LabelSetInputs(Len(ms)) :
         Constructed(ListInput(ms), "None", l, NoY, "ValueError")

\* adj.squareform()
CallSquareform ==
  /\ op' = "squareform"
  /\ arg' = [none |-> TRUE]
  /\ ret' = Squareform(adj)
  /\ UNCHANGED <<src, adj, bs, frame>>

Init ==
  /\ src = [kind |-> "none"]
  /\ adj = Empty
  /\ op = "init"
  /\ arg = [none |-> TRUE]
  /\ ret = Return("adj", Empty)
  /\ bs = [pc |-> "idle"]
  /\ frame = NoFrame

Next ==
  \/ ConstructSquare
  \/ ConstructVector
  \/ ConstructList
  \/ ConstructListLabelled
  \/ ConstructSquareLabelled
  \/ ConstructListLabelSets
  \/ CallSquareform

Spec == Init /\ [][Next]_vars

(***************************************************************************)
(* A client that builds an instance from a small pool and calls the        *)
(* methods on it.                                                          *)
(***************************************************************************)
\* Adjacency()
BuildEmpty ==
  /\ src.kind = "none"
  /\ Constructed(NoData, "None", NoLabels, NoY, "ValueError")

\* Adjacency(M, matrix_type=..., labels=...) of a matrix of the pool, with no
\* labels or with one label for each of its rows.
BuildSingle ==
  /\ src.kind = "none"
  /\ \E m \in ListPool, mt \in InferredOrSquareTypes :
       \E l \in {NoLabels, SharedLabels(NRows(m))} :
         Constructed(ArrayInput(m), mt, l, NoY, "ValueError")

\* Adjacency(v, matrix_type='..._flat') of a 1-D array.
BuildFlat ==
  /\ src.kind = "none"
  /\ \E v \in VecInputs, mt \in {"distance_flat", "similarity_flat", "directed_flat"} :
       Constructed(ArrayInput(v), mt, NoLabels, NoY, "ValueError")

\* Adjacency([M1, ..., Mk], labels=...) of matrices of the pool of one side,
\* with no labels or with one label for each row of the first.
BuildStack ==
  /\ src.kind = "none"
  /\ \E ms \in StackInputs :
       \E l \in {NoLabels, SharedLabels(NRows(ms[1]))} :
         Constructed(ListInput(ms), "None", l, NoY, "ValueError")

\* What the client has at hand as the operand of + - *: adj itself ("self"),
\* a matrix of the pool ("single"), a matrix of the pool stacked on itself
\* ("pair"), a number ("scalar"), or something else ("other").
OperandChoices ==
  {[kind |-> k, x |-> 0, m |-> m] : k \in {"single", "pair"}, m \in ListPool}
    \cup {[kind |-> "scalar", x |-> x, m |-> Mat(<<>>)] : x \in {-1, 0, 1, 2}}
    \cup {[kind |-> k, x |-> 0, m |-> Mat(<<>>)] : k \in {"self", "other"}}

\* The outcome of building the operand chosen.
OperandOf(c) ==
  CASE c.kind = "self" -> Return("operand", Operand(adj))
    [] c.kind = "scalar" -> Return("operand", Scalar(c.x))
    [] c.kind = "other" -> Return("operand", Other)
    [] OTHER ->
         With(Adjacency(IF c.kind = "single" THEN ArrayInput(c.m)
                        ELSE ListInput(<<c.m, c.m>>),
                        NoY, "None", NoLabels, "ValueError"), LAMBDA r :
           IF r.kind = "error" THEN r ELSE Return("operand", Operand(r.val)))

\* The client holds an instance it has just built or gone on with.  A call
\* leaves adj as it is, so the calls made from here are all the calls there are.
Ready == src.kind # "none" /\ op \in {"init", "rebind"}

\* A call of a method: its outcome, where the returned instance's data is
\* stored, and what the writes the method makes into that array do to the
\* receiver.
Called(name, a, r) ==
  /\ op' = name
  /\ arg' = a
  /\ ret' = r
  /\ frame' = [storage |-> Storage(name, adj, a), before |-> adj,
               operand |-> OperandGiven(a), written |-> FALSE]
  /\ adj' = IF r.kind = "adj" /\ WritesInPlace(name)
                /\ Storage(name, adj, a) = "self"
             THEN [adj EXCEPT !.data = r.val.data]
             ELSE adj
  /\ UNCHANGED <<src, bs>>

\* adj + y
CallAdd ==
  /\ Ready
  /\ \E c \in OperandChoices :
       \E y \in {OperandOf(c)} :
         /\ y.kind = "operand"
         /\ Called("add", [y |-> y.val], Add(adj, y.val))

\* adj - y
CallSub ==
  /\ Ready
  /\ \E c \in OperandChoices :
       \E y \in {OperandOf(c)} :
         /\ y.kind = "operand"
         /\ Called("sub", [y |-> y.val], Sub(adj, y.val))

\* adj * y
CallMul ==
  /\ Ready
  /\ \E c \in OperandChoices :
       \E y \in {OperandOf(c)} :
         /\ y.kind = "operand"
         /\ Called("mul", [y |-> y.val], Mul(adj, y.val))

Cutoffs == {NoCutoff} \cup {Cutoff(x) : x \in {-1, 0, 1}}

\* adj.threshold(upper=..., lower=..., binarize=...)
CallThreshold ==
  /\ Ready
  /\ \E upper \in Cutoffs, lower \in Cutoffs, binarize \in BOOLEAN :
       Called("threshold",
              [upper |-> upper, lower |-> lower, binarize |-> binarize],
              Threshold(adj, upper, lower, binarize))

\* adj.mean(axis=...)
CallMean ==
  /\ Ready
  /\ \E axis \in {0, 1} : Called("mean", [axis |-> axis], Mean(adj, axis))

\* adj.std(axis=...)
CallStd ==
  /\ Ready
  /\ \E axis \in {0, 1} : Called("std", [axis |-> axis], Std(adj, axis))

\* adj.distance_to_similarity()
CallDistanceToSimilarity ==
  /\ Ready
  /\ Called("distance_to_similarity", [none |-> TRUE], DistanceToSimilarity(adj))

\* adj.similarity_to_distance()
CallSimilarityToDistance ==
  /\ Ready
  /\ Called("similarity_to_distance", [none |-> TRUE], SimilarityToDistance(adj))

\* adj.ttest(permutation=...)
CallTtest ==
  /\ Ready
  /\ \E permutation \in BOOLEAN :
       Called("ttest", [permutation |-> permutation], Ttest(adj, permutation))

\* adj.to_graph()
CallToGraph ==
  /\ Ready
  /\ Called("to_graph", [none |-> TRUE], ToGraph(adj))

\* adj.plot_mds(n_components=..., labels_color=...)
CallPlotMds ==
  /\ Ready
  /\ \E n_components \in {2, 4},
        labels_color \in {[some |-> FALSE, n |-> 0], [some |-> TRUE, n |-> MaxN]} :
       Called("plot_mds",
              [n_components |-> n_components, labels_color |-> labels_color],
              PlotMds(adj, n_components, labels_color))

\* adj.write(file_name, method=...)
CallWrite ==
  /\ Ready
  /\ \E method \in {"long", "square", "wide"} :
       Called("write", [method |-> method], Write(adj, method))

\* adj[i], i counted from 1.
CallGetItem ==
  /\ Ready
  /\ \E i \in 1..(MaxK + 1) : Called("getitem", [index |-> i], GetItem(adj, i))

\* The client goes on with the instance an indexing or a conversion returned.
Rebind ==
  /\ op \in {"getitem", "similarity_to_distance"}
  /\ ret.kind = "adj"
  /\ src' = [kind |-> "derived"]
  /\ adj' = ret.val
  /\ op' = "rebind"
  /\ arg' = [none |-> TRUE]
  /\ frame' = NoFrame
  /\ UNCHANGED <<ret, bs>>

NextOps ==
  \/ BuildEmpty
  \/ BuildSingle
  \/ BuildFlat
  \/ BuildStack
  \/ CallSquareform
  \/ CallAdd
  \/ CallSub
  \/ CallMul
  \/ CallThreshold
  \/ CallMean
  \/ CallStd
  \/ CallDistanceToSimilarity
  \/ CallSimilarityToDistance
  \/ CallTtest
  \/ CallToGraph
  \/ CallPlotMds
  \/ CallWrite
  \/ CallGetItem
  \/ Rebind

SpecOps == Init /\ [][NextOps]_vars

(***************************************************************************)
(* A client that builds instances with a Y table, indexes them with        *)
(* integers and slices, appends to them and goes on with what it gets.     *)
(***************************************************************************)
\* A table of r rows and c columns; row i holds 10 * i + j in column j.
YTable(r, c) == [some |-> TRUE, v |-> [i \in 1..r |-> [j \in 1..c |-> 10 * i + j]]]

\* Tables of 0 to MaxN * MaxN rows, of one or two columns.
YInputs == {YTable(r, c) : r \in 0..(MaxN * MaxN), c \in 1..2}

\* Adjacency(M, Y=...) of a matrix of the pool.
BuildSingleY ==
  /\ src.kind = "none"
  /\ \E m \in ListPool, Y \in YInputs :
       Constructed(ArrayInput(m), "None", NoLabels, Y, "ValueError")

\* Adjacency([M1, ..., Mk], Y=...) of matrices of the pool of one side.
BuildStackY ==
  /\ src.kind = "none"
  /\ \E ms \in StackInputs, Y \in YInputs :
       Constructed(ListInput(ms), "None", NoLabels, Y, "ValueError")

\* adj[lo:hi], a slice that selects at least one row of a stack.
CallGetSlice ==
  /\ Ready
  /\ \E lo \in 0..MaxK :
       \E hi \in (lo + 1)..(MaxK + 1) :
         /\ adj.data.nd = 2 => lo < NRows(adj.data)
         /\ Called("getslice", [lo |-> lo, hi |-> hi], GetSlice(adj, lo, hi))

\* adj.append(y), for a receiver whose Y is a table.
CallAppend ==
  /\ Ready
  /\ adj.Y.nd = 2
  /\ \E c \in {d \in OperandChoices : d.x = 0} :
       \E y \in {OperandOf(c)} :
         /\ y.kind = "operand"
         /\ Called("append", [y |-> y.val], append(adj, y.val))

\* The client goes on with the instance an indexing or an append returned, up
\* to stacks of 2 * MaxK matrices.
GoOn ==
  /\ op \in {"getitem", "getslice", "append"}
  /\ ret.kind = "adj"
  /\ LenAdj(ret.val) <= 2 * MaxK
  /\ src' = [kind |-> "derived"]
  /\ adj' = ret.val
  /\ op' = "rebind"
  /\ arg' = [none |-> TRUE]
  /\ frame' = NoFrame
  /\ UNCHANGED <<ret, bs>>

\* len(adj)
CallLen ==
  /\ Ready
  /\ Called("len", [none |-> TRUE], Return("int", LenAdj(adj)))

\* What has gone before an iteration: nothing, or the instances a finished
\* iteration of the same instance yielded.
NoPrev == [some |-> FALSE, v |-> <<>>]

\* iter(adj): a new generator of Adjacency.__iter__, which has not run yet.
\* The client starts one on an instance it holds, and once more after an
\* iteration has finished.
CallIter ==
  /\ \/ Ready
     \/ op = "iter" /\ ret.kind = "stop" /\ ~arg.prev.some
  /\ Called("iter",
            [prev |-> IF op = "iter" THEN [some |-> TRUE, v |-> ret.val.yielded]
                      ELSE NoPrev],
            Return("generator", [x |-> 0, yielded |-> <<>>]))

\* next() on the generator: self[x] for the next x of range(len(self)), or
\* the end of the iteration; an error of self[x] ends the generator.
IterNext ==
  /\ op = "iter"
  /\ ret.kind = "generator"
  /\ \E item \in {IF ret.val.x < LenAdj(adj) THEN GetItem(adj, ret.val.x + 1)
                   ELSE Return("stop", 0)} :
       ret' = CASE item.kind = "stop" -> Return("stop", ret.val)
                [] item.kind = "error" ->
                     [kind |-> "error", err |-> item.err, val |-> ret.val]
                [] OTHER ->
                     Return("generator",
                            [x |-> ret.val.x + 1,
                             yielded |-> Append(ret.val.yielded, item.val)])
  /\ UNCHANGED <<src, adj, op, arg, bs, frame>>

\* Designs of 1 to 2 * MaxK rows, of one or two columns.
DesignInputs == {Design(rows, cols) : rows \in 1..(2 * MaxK), cols \in 1..2}

\* adj.regress(X) for a Design_Matrix X.
CallRegressDesign ==
  /\ Ready
  /\ \E X \in DesignInputs : Called("regress", [X |-> X], Regress(adj, X))

\* adj.regress(X) for an instance X, or for something that is no design.
CallRegressInstance ==
  /\ Ready
  /\ \E c \in {d \in OperandChoices : d.x = 0} :
       \E y \in {OperandOf(c)} :
         /\ y.kind = "operand"
         /\ \E X \in {IF y.val.kind = "adj" THEN DesignInstance(y.val.a)
                       ELSE NoDesign} :
              Called("regress", [X |-> X], Regress(adj, X))

NextStack ==
  \/ BuildEmpty
  \/ BuildSingleY
  \/ BuildStackY
  \/ CallGetItem
  \/ CallGetSlice
  \/ CallAppend
  \/ CallLen
  \/ CallIter
  \/ IterNext
  \/ CallRegressDesign
  \/ CallRegressInstance
  \/ GoOn

SpecStack == Init /\ [][NextStack]_vars

(***************************************************************************)
(* A client that calls the methods that return instances and then writes   *)
(* into the data of the instance it got.                                   *)
(***************************************************************************)
\* adj.distance()
CallDistance ==
  /\ Ready
  /\ Called("distance", [none |-> TRUE], Distance(adj))

\* r.data[...] = 9 on the instance r the last call returned: the entries of
\* the array r.data is stored in become 9, for every instance that holds it.
MutateReturned ==
  /\ op \notin {"init", "rebind"}
  /\ ret.kind = "adj"
  /\ ~frame.written
  /\ ret' = [ret EXCEPT !.val.data = MapData(ret.val.data, LAMBDA v : 9)]
  /\ adj' = IF frame.storage = "self"
             THEN [adj EXCEPT !.data = MapData(adj.data, LAMBDA v : 9)]
             ELSE adj
  /\ frame' = [frame EXCEPT
                 !.written = TRUE,
                 !.operand = IF frame.storage = "operand"
                             THEN [@ EXCEPT !.data = MapData(@.data, LAMBDA v : 9)]
                             ELSE @]
  /\ UNCHANGED <<src, op, arg, bs>>

NextFrame ==
  \/ BuildEmpty
  \/ BuildSingle
  \/ BuildSingleY
  \/ BuildFlat
  \/ BuildStack
  \/ CallAdd
  \/ CallSub
  \/ CallMul
  \/ CallThreshold
  \/ CallMean
  \/ CallStd
  \/ CallGetItem
  \/ CallGetSlice
  \/ CallAppend
  \/ CallDistance
  \/ CallSimilarityToDistance
  \/ CallDistanceToSimilarity
  \/ CallTtest
  \/ MutateReturned

SpecFrame == Init /\ [][NextFrame]_vars

(***************************************************************************)
(* Adjacency.bootstrap.  bs holds the call in progress: the root seed, the *)
(* seeds drawn from it, for each task its status, the seed it received and *)
(* its result, the order the tasks finished in, the outcome handed to the  *)
(* summarizer, and in last the previous call.                              *)
(***************************************************************************)
MAX_INT == 2147483647

\* The generator behind RandomState: numpy's Mersenne Twister stands as a
\* linear congruential generator; what matters is that a draw is a function of
\* the generator's state alone.
NextState(x) == (75 * x + 74) % 65537

\* RandomState.randint(high, size=n) from the state given.
RECURSIVE Randint(_, _, _)
Randint(state, high, n) ==
  IF n = 0 THEN <<>>
  ELSE <<NextState(state) % high>> \o Randint(NextState(state), high, n - 1)

\* check_random_state(seed) of an integer: a new generator seeded with it.
check_random_state(seed) == seed

\* seeds = random_state.randint(MAX_INT, size=n_samples)
Seeds(root, n_samples) == Randint(check_random_state(root), MAX_INT, n_samples)

\* nltools.utils._bootstrap_apply_func: as many rows as the stack has, drawn
\* with replacement by a generator seeded with the task's seed, and the
\* method named applied to them.
BootstrapApply(a, function, seed) ==
  With(Randint(check_random_state(seed), NRows(a.data), NRows(a.data)), LAMBDA rows :
    Stat(function,
         [a EXCEPT !.data = Mat([i \in 1..Len(rows) |-> a.data.v[rows[i] + 1]])],
         0))

\* Mutant of Parallel: the results in the order the tasks finished.
ParallelAsCompleted(result, finished) ==
  [x \in 1..Len(finished) |-> result[finished[x]]]

\* joblib's Parallel(...)(...): the results in the order of the tasks, whatever
\* order they finished in.
Parallel(result, finished) == [i \in 1..Len(finished) |-> result[i]]

\* nltools.utils.concatenate, through Adjacency(list of instances): the
\* results stacked, one row each.
concatenate(results) ==
  Instance(Mat([i \in 1..Len(results) |-> results[i].val.data.v]),
           results[1].val.issymmetric, results[1].val.matrix_type, "False",
           NoLabels, EmptyFrame)

\* What the call leaves: an exception of a task, or the stack handed to
\* summarize_bootstrap.
Gathered(results) ==
  IF \E i \in 1..Len(results) : results[i].kind = "error"
  THEN results[CHOOSE i \in 1..Len(results) :
                 /\ results[i].kind = "error"
                 /\ \A j \in 1..(i - 1) : results[j].kind # "error"]
  ELSE Return("adj", concatenate(results))

NoBootstrap ==
  [some |-> FALSE, root |-> 0, n |-> 0, function |-> "mean", seeds |-> <<>>,
   handed |-> NoCall]

\* The stacks bootstrap is called on: directed matrices, and symmetric
\* matrices whose matrix_type is None.
BootstrapInputs ==
  {[i \in 1..MaxK |-> PoolMatrix(MaxN, IF i = 1 THEN "zero" ELSE "one", FALSE)],
   [i \in 1..MaxK |-> PoolMatrix(MaxN, "mixed", TRUE)]}

InitBootstrap ==
  /\ \E ms \in BootstrapInputs :
       \E r \in {Adjacency(ListInput(ms), NoY, "None", NoLabels, "ValueError")} :
         /\ src = New(ListInput(ms), "None", NoLabels, NoY, r)
         /\ adj = r.val
         /\ ret = r
  /\ op = "init"
  /\ arg = [none |-> TRUE]
  /\ frame = NoFrame
  /\ bs = [pc |-> "idle", root |-> 0, n |-> 0, function |-> "mean", seeds |-> <<>>,
           status |-> <<>>, received |-> <<>>, result |-> <<>>, finished |-> <<>>,
           handed |-> NoCall, last |-> NoBootstrap]

\* adj.bootstrap(function, n_samples=n, random_state=root): the seeds are drawn
\* and the tasks queued.
BootstrapCall ==
  /\ bs.pc = "idle"
  /\ \E root \in 0..MaxSeed, n \in 1..MaxSamples, function \in {"mean", "std"} :
       bs' = [pc |-> "running", root |-> root, n |-> n, function |-> function,
              seeds |-> Seeds(root, n),
              status |-> [i \in 1..n |-> "queued"],
              received |-> [i \in 1..n |-> -1],
              result |-> [i \in 1..n |-> NoCall],
              finished |-> <<>>,
              handed |-> NoCall,
              last |-> IF bs.handed.kind = "none" THEN bs.last
                       ELSE [some |-> TRUE, root |-> bs.root, n |-> bs.n,
                             function |-> bs.function, seeds |-> bs.seeds,
                             handed |-> bs.handed]]
  /\ UNCHANGED <<src, adj, op, arg, ret, frame>>

\* A worker takes up task i, with random_state=seeds[i].
TaskStart(i) ==
  /\ bs.pc = "running"
  /\ i \in 1..bs.n
  /\ bs.status[i] = "queued"
  /\ bs' = [bs EXCEPT !.status[i] = "running", !.received[i] = bs.seeds[i]]
  /\ UNCHANGED <<src, adj, op, arg, ret, frame>>

\* Task i finishes: _bootstrap_apply_func with the seed it received.
TaskFinish(i) ==
  /\ bs.pc = "running"
  /\ i \in 1..bs.n
  /\ bs.status[i] = "running"
  /\ bs' = [bs EXCEPT !.status[i] = "done",
                      !.result[i] = BootstrapApply(adj, bs.function, bs.received[i]),
                      !.finished = Append(bs.finished, i)]
  /\ UNCHANGED <<src, adj, op, arg, ret, frame>>

\* Every task is done: the results are collected and handed on.
Gather ==
  /\ bs.pc = "running"
  /\ Len(bs.finished) = bs.n
  /\ bs' = [bs EXCEPT !.pc = "idle",
                      !.handed = Gathered(Parallel(bs.result, bs.finished))]
  /\ UNCHANGED <<src, adj, op, arg, ret, frame>>

NextBootstrap ==
  \/ BootstrapCall
  \/ \E i \in 1..MaxSamples : TaskStart(i)
  \/ \E i \in 1..MaxSamples : TaskFinish(i)
  \/ Gather

SpecBootstrap == InitBootstrap /\ [][NextBootstrap]_vars

(***************************************************************************)
(* The claims.                                                             *)
(***************************************************************************)
\* adj was constructed from one square matrix, with no matrix_type, labels or Y.
FromSquareUntyped ==
  /\ src.kind = "new"
  /\ src.data.kind = "array"
  /\ src.data.a.nd = 2
  /\ NRows(src.data.a) = NCols(src.data.a)
  /\ src.matrix_type = "None"
  /\ ~src.labels.some
  /\ ~src.Y.some

\* The rows of that matrix, and its side.
M0 == src.data.a.v

Side == Len(src.data.a.v)

SymmetricInput == \A i, j \in 1..Side : M0[i][j] = M0[j][i]

ZeroDiagonal == \A i \in 1..Side : M0[i][i] = 0

UnitDiagonal == \A i \in 1..Side : M0[i][i] = 1

DiagonalSum == SumSeq([i \in 1..Side |-> M0[i][i]])

\* The strict upper triangle of m, row after row, from row i on.
RECURSIVE UpperRows(_, _)
UpperRows(m, i) ==
  IF i > Len(m) THEN <<>> ELSE SubSeq(m[i], i + 1, Len(m)) \o UpperRows(m, i + 1)

\* The rows of m one after the other, from row i on.
RECURSIVE ConcatRows(_, _)
ConcatRows(m, i) == IF i > Len(m) THEN <<>> ELSE m[i] \o ConcatRows(m, i + 1)

\* C1: for a square symmetric matrix M with an all-zero or an all-one
\* diagonal, constructing from M with no matrix_type succeeds and squareform()
\* returns a matrix of M's side that equals M off the diagonal and is zero on
\* it.
C1_SymmetricRoundTrip ==
  (op = "squareform" /\ FromSquareUntyped /\ SymmetricInput
     /\ (ZeroDiagonal \/ UnitDiagonal))
  => /\ src.made
     /\ ret.kind = "matrix"
     /\ Len(ret.val.v) = Side
     /\ \A i \in 1..Side : Len(ret.val.v[i]) = Side
     /\ \A i, j \in 1..Side : ret.val.v[i][j] = IF i = j THEN 0 ELSE M0[i][j]

C1_Witness ==
  /\ op = "squareform" /\ FromSquareUntyped /\ SymmetricInput /\ UnitDiagonal
  /\ Side = 2 /\ M0[1][2] = -1
  /\ ret.kind = "matrix" /\ ret.val.v = <<<<0, -1>>, <<-1, 0>>>>

\* C2: for a square asymmetric n x n matrix M, constructing from M with no
\* matrix_type gives matrix_type 'directed' and a stored vector of length
\* n * n, and squareform() returns exactly M.
C2_DirectedRoundTrip ==
  (FromSquareUntyped /\ ~SymmetricInput)
  => /\ src.made
     /\ adj.matrix_type = "directed"
     /\ adj.data.nd = 1
     /\ Len(adj.data.v) = Side * Side
     /\ (op = "squareform" => ret.kind = "matrix" /\ ret.val.v = M0)

C2_Witness ==
  /\ op = "squareform" /\ FromSquareUntyped
  /\ M0 = <<<<1, -1>>, <<0, 1>>>>
  /\ adj.data.v = <<1, -1, 0, 1>>
  /\ ret.kind = "matrix" /\ ret.val.v = M0

\* C3: constructing from a square matrix M with no matrix_type, issymmetric is
\* true exactly when M equals its transpose off the diagonal; a symmetric M
\* with a zero diagonal is a 'distance', one whose diagonal sums to n a
\* 'similarity', and both store M's strict upper triangle in row-major order;
\* [[0,3,4],[3,0,5],[4,5,0]] stores [3,4,5].
C3_InferredType ==
  (op = "init" /\ FromSquareUntyped)
  => /\ src.made
     /\ adj.issymmetric = (IF SymmetricInput THEN "True" ELSE "False")
     /\ (SymmetricInput /\ ZeroDiagonal) =>
          (adj.matrix_type = "distance" /\ adj.data = Vec(UpperRows(M0, 1)))
     /\ (SymmetricInput /\ DiagonalSum = Side) =>
          (adj.matrix_type = "similarity" /\ adj.data = Vec(UpperRows(M0, 1)))
     /\ (src.data.a = Example2) =>
          (adj.matrix_type = "distance" /\ adj.data = Vec(<<3, 4, 5>>))

C3_Witness ==
  /\ op = "init" /\ FromSquareUntyped /\ src.data.a = Example2
  /\ adj.issymmetric = "True" /\ adj.matrix_type = "distance"
  /\ adj.data = Vec(<<3, 4, 5>>)

\* adj was constructed from a list of square matrices, with no labels or Y.
FromList ==
  /\ src.kind = "new"
  /\ src.data.kind = "list"
  /\ ~src.labels.some
  /\ ~src.Y.some

Items == src.data.items

SameSide == \A i \in 1..Len(Items) : Len(Items[i].v) = Len(Items[1].v)

SameResolvedType ==
  \A i \in 1..Len(Items) :
    /\ ImportSingle(Items[i], src.matrix_type).err = ""
    /\ ImportSingle(Items[i], src.matrix_type).matrix_type
         = ImportSingle(Items[1], src.matrix_type).matrix_type

\* C4: constructing from a list of k >= 1 square matrices of one side length
\* that resolve to one matrix_type gives a stack: is_single_matrix is False,
\* len() and shape()[0] are k, and row i is the flattening of element i (its
\* strict upper triangle when symmetric, all its rows when directed).
C4_StackOfList ==
  (op = "init" /\ FromList /\ SameSide /\ SameResolvedType)
  => /\ src.made
     /\ adj.is_single_matrix = "False"
     /\ LenAdj(adj) = Len(Items)
     /\ ShapeAdj(adj)[1] = Len(Items)
     /\ adj.data.nd = 2
     /\ \A i \in 1..Len(Items) :
          adj.data.v[i] = IF adj.issymmetric = "True" THEN UpperRows(Items[i].v, 1)
                          ELSE ConcatRows(Items[i].v, 1)

C4_Witness ==
  /\ op = "init" /\ FromList /\ Len(Items) = 2 /\ src.matrix_type = "None"
  /\ Items[1].v = <<<<0, 1>>, <<0, 0>>>> /\ Items[2].v = <<<<1, -1>>, <<0, 1>>>>
  /\ adj.is_single_matrix = "False" /\ adj.matrix_type = "directed"
  /\ adj.data = Mat(<<<<0, 1, 0, 0>>, <<1, -1, 0, 1>>>>)

\* The operand of the last + - * was an instance.
InstanceOperand == op \in {"add", "sub", "mul"} /\ arg.y.kind = "adj"

Values(d) == Flatten(d)

\* C6: for every instance and every numeric cutoff X, 0 and negative X
\* included, the stored vector of threshold(upper=X) holds no value that is
\* both nonzero and below X.
C6_UpperCutoff ==
  (op = "threshold" /\ arg.upper.some /\ ~arg.lower.some /\ ~arg.binarize)
  => /\ ret.kind = "adj"
     /\ \A x \in 1..Len(Values(ret.val.data)) :
          ~(Values(ret.val.data)[x] # 0 /\ Values(ret.val.data)[x] < arg.upper.x)

\* C7: distance_to_similarity fails on every instance whose matrix_type is not
\* 'distance', similarity_to_distance on every instance whose matrix_type is
\* not 'similarity'; on a single 'similarity' instance similarity_to_distance
\* returns a 'distance' instance with the same labels whose stored vector is 1
\* minus the receiver's, entry by entry.
C7_Conversions ==
  /\ (op = "distance_to_similarity" /\ adj.matrix_type # "distance")
       => ret.kind = "error"
  /\ (op = "similarity_to_distance" /\ adj.matrix_type # "similarity")
       => ret.kind = "error"
  /\ (op = "similarity_to_distance" /\ adj.matrix_type = "similarity"
        /\ adj.is_single_matrix = "True")
       => /\ ret.kind = "adj"
          /\ ret.val.matrix_type = "distance"
          /\ ret.val.labels = adj.labels
          /\ ret.val.data = MapData(adj.data, LAMBDA v : 1 - v)

\* C8: ttest() on a single-matrix instance, to_graph() and plot_mds() on a
\* stacked instance, and write(method='square') on a stacked instance fail
\* with an error and return nothing.
C8_WrongMode ==
  /\ (op = "ttest" /\ adj.is_single_matrix # "False") => ret.kind = "error"
  /\ (op \in {"to_graph", "plot_mds"} /\ adj.is_single_matrix = "False")
       => ret.kind = "error"
  /\ (op = "write" /\ arg.method = "square" /\ adj.is_single_matrix = "False")
       => ret.kind = "error"

C8_Witness ==
  /\ op = "ttest" /\ adj.is_single_matrix = "True"
  /\ adj.matrix_type = "distance" /\ adj.data.v = <<1>>
  /\ ret.kind = "error" /\ ret.err = "ValueError"

\* The previous call of bootstrap had the function, the root seed and the
\* n_samples of this one.
SameCallAsLast ==
  /\ bs.last.some
  /\ bs.last.function = bs.function
  /\ bs.last.root = bs.root
  /\ bs.last.n = bs.n

\* C9: for a fixed root seed and n_samples, bootstrap draws the same n_samples
\* seeds on every call, task i receives seed i of them, and what is handed to
\* the summarizer is the same in two runs, whatever order the tasks start and
\* finish in.
C9_BootstrapDeterministic ==
  /\ (bs.pc = "running" /\ SameCallAsLast) => bs.seeds = bs.last.seeds
  /\ \A i \in 1..bs.n : bs.status[i] # "queued" => bs.received[i] = bs.seeds[i]
  /\ (bs.pc = "idle" /\ bs.handed.kind # "none" /\ SameCallAsLast)
       => bs.handed = bs.last.handed

C9_Witness ==
  /\ bs.pc = "idle" /\ SameCallAsLast /\ bs.n = MaxSamples
  /\ bs.function = "mean"
  /\ bs.finished[1] = MaxSamples /\ bs.finished[MaxSamples] = 1
  /\ bs.handed.kind = "adj"
  /\ bs.handed = bs.last.handed
  /\ \E i \in 2..bs.n : bs.handed.val.data.v[i] # bs.handed.val.data.v[1]

\* C10: for a stack of k matrices with rows of length L, mean(axis=0) and
\* std(axis=0) return a single-matrix instance with the receiver's matrix_type
\* and issymmetric and shape() (L,), holding the statistic of each column;
\* mean(axis=1) and std(axis=1) return a sequence of k values; on a
\* single-matrix instance both return one scalar.
C10_MeanStd ==
  (op \in {"mean", "std"})
  => IF adj.is_single_matrix = "False"
     THEN IF arg.axis = 0
          THEN /\ ret.kind = "adj"
               /\ ret.val.is_single_matrix = "True"
               /\ ret.val.matrix_type = adj.matrix_type
               /\ ret.val.issymmetric = adj.issymmetric
               /\ ShapeAdj(ret.val) = <<NCols(adj.data)>>
               /\ \A j \in 1..NCols(adj.data) :
                    ret.val.data.v[j] = Statistic(op, Column(adj.data, j))
          ELSE /\ ret.kind = "array"
               /\ Len(ret.val.v) = NRows(adj.data)
     ELSE ret.kind = "scalar"

\* The constructor call that made adj returned an instance.
Returned == op = "init" /\ src.kind = "new" /\ ret.kind = "adj"

\* C11: every instance the constructor returns, for any input and with or
\* without a matrix_type, has matrix_type 'distance', 'similarity', 'directed'
\* or 'empty', with issymmetric true for the first two and false for
\* 'directed'.
C11_MatrixType ==
  Returned
  => /\ ret.val.matrix_type \in {"distance", "similarity", "directed", "empty"}
     /\ ret.val.matrix_type \in {"distance", "similarity"}
          => ret.val.issymmetric = "True"
     /\ ret.val.matrix_type = "directed" => ret.val.issymmetric = "False"

\* data.shape[-1]
LastAxis(d) == Shape(d)[Len(Shape(d))]

\* L is n(n-1)/2 for some n.
IsTriangular(L) == \E n \in 0..(L + 1) : n * (n - 1) = 2 * L

\* L is n*n for some n.
IsSquareNumber(L) == ISqrt(L) * ISqrt(L) = L

\* C12: in every non-empty instance reachable by construction (the *_flat
\* matrix types included) the last axis of data has a triangular length
\* n(n-1)/2 when issymmetric is true and a square length n*n when it is false,
\* so squareform() has an n x n result.
C12_ValidLength ==
  (Returned /\ ~isempty(ret.val) /\ ~IsObject(ret.val.data))
  => /\ IF ret.val.issymmetric = "True"
        THEN IsTriangular(LastAxis(ret.val.data))
        ELSE IsSquareNumber(LastAxis(ret.val.data))
     /\ Squareform(ret.val).kind # "error"

\* C15: constructing from a list of matrices fails, or gives a stack whose
\* matrices have one matrix_type, one symmetry and one side: a list whose
\* elements resolve to different issymmetric or matrix_type values, or have
\* different sides, never gives an instance.
C15_ListHomogeneous ==
  (Returned /\ src.data.kind = "list")
  => /\ ~IsObject(ret.val.data)
     /\ \A i \in 1..Len(Items) :
          /\ ImportSingle(Items[i], src.matrix_type).err = ""
          /\ ImportSingle(Items[i], src.matrix_type).matrix_type
               = ImportSingle(Items[1], src.matrix_type).matrix_type
          /\ ImportSingle(Items[i], src.matrix_type).issymmetric
               = ImportSingle(Items[1], src.matrix_type).issymmetric
          /\ NRows(Items[i]) = NRows(Items[1])

\* C16: for cutoffs lower < upper passed together, 0 included,
\* threshold(upper, lower) sets to 0 exactly the stored values v with
\* lower < v < upper and leaves the others as they were; with only lower given
\* it sets to 0 exactly the values above lower.
C16_TwoCutoffs ==
  (op = "threshold" /\ ~arg.binarize /\ arg.lower.some
     /\ (arg.upper.some => arg.lower.x < arg.upper.x))
  => /\ ret.kind = "adj"
     /\ Shape(ret.val.data) = Shape(adj.data)
     /\ \A x \in 1..Len(Values(adj.data)) :
          Values(ret.val.data)[x] =
            IF /\ Values(adj.data)[x] > arg.lower.x
               /\ (arg.upper.some => Values(adj.data)[x] < arg.upper.x)
            THEN 0 ELSE Values(adj.data)[x]

\* The constructor was called with labels, on one square matrix or on a list
\* of square matrices of one side and one resolved type.
LabelledCall ==
  /\ op = "init" /\ src.kind = "new" /\ src.labels.some
  /\ \/ src.data.kind = "array" /\ src.data.a.nd = 2
     \/ src.data.kind = "list" /\ SameSide /\ SameResolvedType

\* The side n of the matrices passed, and how many they are.
SideGiven == IF src.data.kind = "array" THEN NRows(src.data.a) ELSE NRows(Items[1])

CountGiven == IF src.data.kind = "array" THEN 1 ELSE Len(Items)

\* The labels passed are n labels (for one matrix, or shared by the matrices
\* of a list), or one set of n labels for each matrix of a list.
LabelsFit ==
  \/ /\ Len(src.labels.v) = SideGiven
     /\ \A i \in 1..Len(src.labels.v) : src.labels.v[i].id # 0
  \/ /\ src.data.kind = "list"
     /\ Len(src.labels.v) = CountGiven
     /\ \A i \in 1..Len(src.labels.v) : src.labels.v[i].len = SideGiven

\* C14: after a successful construction with labels a single matrix has n
\* labels, n the side of the square form, and a stack holds a label set of
\* length n for each matrix, whether one shared set or one set per matrix was
\* given; construction fails when a label set given has a length other than n.
C14_Labels ==
  LabelledCall
  => /\ ~LabelsFit => ret.kind = "error"
     /\ (ret.kind = "adj" /\ src.data.kind = "array")
          => Len(ret.val.labels.v) = SideGiven
     /\ (ret.kind = "adj" /\ src.data.kind = "list")
          => \/ /\ Len(ret.val.labels.v) = CountGiven
                /\ \A i \in 1..CountGiven : ret.val.labels.v[i].len = SideGiven
             \/ Len(ret.val.labels.v) = SideGiven * CountGiven

\* A Y that is empty, or has one row for each matrix of the instance.
YPerMatrix(a) == YEmpty(a.Y) \/ LenY(a.Y) = LenAdj(a)

\* The matrices a constructor call was given.
GivenCount == IF src.data.kind = "list" THEN Len(src.data.items) ELSE 1

\* C13: in every instance reachable by construction with a Y table, integer or
\* slice indexing, and append, a non-empty Y has one row for each matrix held,
\* len(Y) = len(instance); construction with a Y of any other row count (a
\* table with rows, that is) fails.
C13_YRows ==
  /\ (op \in {"init", "getitem", "getslice", "append"} /\ ret.kind = "adj")
       => YPerMatrix(ret.val)
  /\ (op = "init" /\ src.kind = "new" /\ src.Y.some /\ src.data.kind # "none"
        /\ Len(src.Y.v) > 0 /\ Len(src.Y.v) # GivenCount)
       => ret.kind = "error"

\* The instance indexing by an integer should return for row i of a.
SingleOf(a, i) ==
  a.is_single_matrix = "True" /\ a.data = Vec(RowsOf(adj.data)[i])

\* C17: for every non-empty instance, len() is 1 for a single matrix and k
\* for a stack of k; iterating it yields len() instances in stack order, each
\* a single matrix holding the corresponding row, and the same again when
\* restarted; indexing with an integer below len() returns such a single
\* matrix, and a slice of a stack returns the rows selected, still stacked.
C17_Sequence ==
  ~isempty(adj)
  => /\ op = "len"
          => ret.val = IF adj.data.nd = 1 THEN 1 ELSE NRows(adj.data)
     /\ op = "iter"
          => /\ ret.kind # "error"
             /\ \A i \in 1..Len(ret.val.yielded) : SingleOf(ret.val.yielded[i], i)
             /\ ret.kind = "stop" => Len(ret.val.yielded) = LenAdj(adj)
             /\ (ret.kind = "stop" /\ arg.prev.some)
                  => ret.val.yielded = arg.prev.v
     /\ (op = "getitem" /\ arg.index <= LenAdj(adj))
          => ret.kind = "adj" /\ SingleOf(ret.val, arg.index)
     /\ (op = "getslice" /\ adj.data.nd = 2)
          => /\ ret.kind = "adj"
             /\ ret.val.is_single_matrix = "False"
             /\ ret.val.data = Mat(Sliced(adj.data.v, arg.lo, arg.hi))

\* The receiver of the last call is a stack.
Stacked == ~isempty(adj) /\ adj.is_single_matrix = "False" /\ adj.data.nd = 2

FrameOps ==
  {"threshold", "add", "sub", "mul", "mean", "std", "getitem", "getslice",
   "append", "distance", "similarity_to_distance", "distance_to_similarity",
   "ttest"}

\* C18: after threshold, + - *, mean, std, indexing, append, distance,
\* similarity_to_distance, distance_to_similarity or ttest, whether the call
\* returned an instance or failed, the receiver (data, matrix_type,
\* issymmetric, is_single_matrix, labels, Y) and the operand are what they
\* were before the call, and they stay so when the returned instance's data
\* is written to afterwards.
C18_NoMutation ==
  op \in FrameOps
  => /\ adj = frame.before
     /\ frame.operand = OperandGiven(arg)

\* A threshold has returned an instance, the client has written 9 into the
\* returned instance's data, and the receiver holds an entry that is not 9.
C18_Witness ==
  /\ op = "threshold"
  /\ ret.kind = "adj"
  /\ frame.written
  /\ adj.data.nd = 1
  /\ \E i \in 1..Len(adj.data.v) :
       adj.data.v[i] \notin {0, 9} /\ ret.val.data.v[i] = 9

====
